---- MODULE Spec2Model ----
(***************************************************************************)
(* Model of src/cli/anymd/scripts/batch-ocr.py: the batch orchestrator     *)
(* (_run_ocr), the file processor (_ocr_one_file) with its one-slot        *)
(* background extraction worker, the page extractor (_render_page) and     *)
(* the quality gate (_tesseract_quality_ok).                               *)
(*                                                                         *)
(* Text is a sequence of characters drawn from five character classes:     *)
(*   "a" alphabetic without diacritic, "d" alphabetic and in DIACRITICS,   *)
(*   "s" space, "n" newline, "x" neither alphabetic nor whitespace.        *)
(* A file on disk is a record [exists, data].  Wall-clock values (elapsed, *)
(* avg, eta) are not modelled.  _log is taken to succeed.  The program     *)
(* never reads the status artifact: status is what this process wrote.     *)
(* PageCounts only feeds the last log line and is left out.                *)
(*                                                                         *)
(* Spec and FairSpec are the batch over a short input set, run again after *)
(* it ended or was killed.  HistSpec is one run over a long input set.     *)
(* NameSpec is _to_output_name applied to two document paths.              *)
(***************************************************************************)
EXTENDS Integers, Sequences, FiniteSets, TLC

\* ----------------------------------------------------------------- bounds
MaxRuns == 2
MaxFiles == 2
MaxDepth == 1
HistFiles == 12

\* -------------------------------------------------------- program constants
MIN_CHARS_FOR_PAGE == 50
NATIVE_TEXT_THRESHOLD == 50
\* MIN_DIACRITICS_RATIO = 0.15, kept as the exact fraction 15/100
MIN_DIACRITICS_RATIO_NUM == 15
MIN_DIACRITICS_RATIO_DEN == 100
RECENT_KEEP == 10

\* ------------------------------------------------------------------- text
RECURSIVE Rep(_, _)
Rep(c, n) == IF n = 0 THEN <<>> ELSE <<c>> \o Rep(c, n - 1)

IsAlpha(c) == c \in {"a", "d"}
IsDiacritic(c) == c = "d"
IsSpace(c) == c \in {"s", "n"}

AlphaCount(text) == Cardinality({k \in DOMAIN text : IsAlpha(text[k])})
DiacriticsCount(text) == Cardinality({k \in DOMAIN text : IsDiacritic(text[k])})

SetMin(S) == CHOOSE m \in S : \A k \in S : m <= k
SetMax(S) == CHOOSE m \in S : \A k \in S : m >= k

\* str.strip(): leading and trailing whitespace removed
Strip(text) ==
  LET solid == {k \in DOMAIN text : ~IsSpace(text[k])}
  IN  IF solid = {} THEN <<>> ELSE SubSeq(text, SetMin(solid), SetMax(solid))

\* the page separator '\n\n'
SEP == <<"n", "n">>

\* ------------------------------------------------------------- documents
\* The documents of the input set.  A page is what the collaborators return
\* for it: emb the embedded text layer, tess the fast engine's text for the
\* rendered image, vlm the fallback engine's text for the rendered image.
Page(emb, tess, vlm) == [emb |-> emb, tess |-> tess, vlm |-> vlm]

DocA ==
  << Page(<<"s">> \o Rep("a", 50) \o <<"n">>, Rep("d", 50), <<"x">>),
     Page(Rep("a", 49) \o <<"x">>, Rep("a", 51) \o Rep("d", 9), <<"x", "x">>),
     Page(<<>>, Rep("a", 43) \o Rep("d", 7), <<"a", "n", "d">>) >>

DocB ==
  << Page(<<"s", "s">>, Rep("a", 41) \o Rep("d", 8), <<>>),
     Page(<<"x">>, Rep("a", 42) \o Rep("d", 8) \o <<"n">>, <<"d">>) >>

DocC == << >>

\* a one-page document with native text, for the long input set
DocE == << Page(Rep("a", 50), <<>>, <<>>) >>

Names == {"A", "B", "C"}

\* the documents of the long input set
HistName(k) == "E" \o ToString(k)
HistNames == {HistName(k) : k \in 1 .. HistFiles}

Docs ==
  [n \in Names \cup HistNames |->
     CASE n = "A" -> DocA [] n = "B" -> DocB [] n = "C" -> DocC [] OTHER -> DocE]

NumPages(n) == Len(Docs[n])

\* ------------------------------------------------------------ output names
\* A document path after resolve(): inside says whether it lies under
\* DATA_DIR, dirs are the directories below DATA_DIR (or below another root),
\* stem and suffix make the file name.  A path component is a sequence of
\* characters; "/" separates components.
SegA == <<"a">>
SegB == <<"b">>
SegAB == <<"a", "-", "-", "b">>
Segments == {SegA, SegB, SegAB}
Suffixes == {"pdf", "PDF"}

RECURSIVE DirSeqs(_)
DirSeqs(k) ==
  IF k = 0 THEN {<<>>}
  ELSE LET shorter == DirSeqs(k - 1)
       IN  shorter \cup {Append(d, SegA) : d \in shorter}

Paths ==
  [inside : BOOLEAN, dirs : DirSeqs(MaxDepth), stem : Segments, suffix : Suffixes]

\* str(rel.with_suffix('')): the components joined by "/", the suffix dropped
RECURSIVE RelString(_, _)
RelString(dirs, stem) ==
  IF dirs = <<>> THEN stem
  ELSE Head(dirs) \o <<"/">> \o RelString(Tail(dirs), stem)

\* .replace('/', '--')
RECURSIVE ReplaceSlash(_)
ReplaceSlash(str) ==
  IF str = <<>> THEN <<>>
  ELSE (IF Head(str) = "/" THEN <<"-", "-">> ELSE <<Head(str)>>)
         \o ReplaceSlash(Tail(str))

\* _to_output_name: Path(pdf_path).stem for a path outside DATA_DIR
ToOutputName(path) ==
  IF ~path.inside
  THEN path.stem
  ELSE ReplaceSlash(RelString(path.dirs, path.stem))

\* --------------------------------------------------------- pure functions
TesseractQualityOk_NoCount(text) ==
  LET alpha_count == AlphaCount(text)
  IN  IF alpha_count = 0
      THEN FALSE
      ELSE DiacriticsCount(text) * MIN_DIACRITICS_RATIO_DEN
             >= MIN_DIACRITICS_RATIO_NUM * alpha_count

\* _tesseract_quality_ok
TesseractQualityOk(text) ==
  LET alpha_count == AlphaCount(text)
  IN  IF alpha_count < MIN_CHARS_FOR_PAGE
      THEN FALSE
      ELSE DiacriticsCount(text) * MIN_DIACRITICS_RATIO_DEN
             >= MIN_DIACRITICS_RATIO_NUM * alpha_count

NoUnit == [isImage |-> FALSE, exc |-> FALSE, doc |-> "-", page |-> 0, text |-> <<>>]

RenderPage_Gt(n, page_idx) ==
  IF page_idx >= NumPages(n)
  THEN [NoUnit EXCEPT !.exc = TRUE, !.doc = n, !.page = page_idx]
  ELSE LET text == Docs[n][page_idx + 1].emb
       IN  IF AlphaCount(text) > NATIVE_TEXT_THRESHOLD
           THEN [NoUnit EXCEPT !.doc = n, !.page = page_idx, !.text = Strip(text)]
           ELSE [NoUnit EXCEPT !.isImage = TRUE, !.doc = n, !.page = page_idx]

\* _render_page: (None, text.strip()) for a page with enough embedded text,
\* else (image, ''); the image is identified by the page it was rendered
\* from.  doc[page_idx] raises for an index past the last page.
RenderPage(n, page_idx) ==
  IF page_idx >= NumPages(n)
  THEN [NoUnit EXCEPT !.exc = TRUE, !.doc = n, !.page = page_idx]
  ELSE LET text == Docs[n][page_idx + 1].emb
       IN  IF AlphaCount(text) >= NATIVE_TEXT_THRESHOLD
           THEN [NoUnit EXCEPT !.doc = n, !.page = page_idx, !.text = Strip(text)]
           ELSE [NoUnit EXCEPT !.isImage = TRUE, !.doc = n, !.page = page_idx]

\* _tesseract_ocr and _chandra_ocr on a rendered image
TesseractOcr(image) == Docs[image.doc][image.page + 1].tess
ChandraOcr(image) == Docs[image.doc][image.page + 1].vlm

\* ------------------------------------------------------------ file system
NoFile == [exists |-> FALSE, data |-> <<>>]
FileOf(data) == [exists |-> TRUE, data |-> data]

OpenForWrite_Append(old) == FileOf(old.data)

\* tmp_path.open('w'): the file is created, or truncated when it exists
OpenForWrite(old) == FileOf(<<>>)

PageSeparator_Always(idx) == SEP

\* if p_idx > 0: out.write('\n\n')
PageSeparator(idx) == IF idx > 0 THEN SEP ELSE <<>>

NoStatus ==
  [exists |-> FALSE, done |-> 0, total |-> 0, errors |-> 0, current_file |-> "-",
   current_page |-> 0, current_pages_total |-> 0, recent_files |-> <<>>]

LastN_All(s, k) == s

\* recent_files[-10:]
LastN(s, k) == IF Len(s) <= k THEN s ELSE SubSeq(s, Len(s) - k + 1, Len(s))

\* _save_progress: the status artifact is overwritten in full; current_page
\* is the 1-based page number, 0 standing for '-'
Snapshot(done, tot, errs, file, page, pages_total, recent) ==
  [exists |-> TRUE, done |-> done, total |-> tot, errors |-> errs,
   current_file |-> file, current_page |-> page,
   current_pages_total |-> pages_total, recent_files |-> LastN(recent, RECENT_KEEP)]

\* ------------------------------------------------------------------ state
VARIABLES
  files,          \* data['files']['scanned'] + data['files']['mixed']
  md, tmp,        \* OUTPUT_BASE/<name>.md and <name>.md.tmp
  status,         \* STATUS_FILE: the last snapshot this process wrote to it
  run,            \* number of the batch process
  pc,             \* position of the main sequence
  pending, done_count, total, i, errors, recent_files,
  chandra_loaded, \* ChandraState.loaded
  summary,        \* the 'OCR complete' line
  doc_open,       \* the document handle of _ocr_one_file is open
  executor,       \* "none", "running" or "shutdown"
  p_idx, num_pages,
  next_future,    \* the one future of the page driver
  unit,           \* (image, native_text) of the current page
  md_text, tag,
  \* observations of the run, not read by the program
  outcomes,       \* per pending index: "ok", "skipped", "failed", "postfail"
  rendered,       \* pages of the current file the worker rendered to an image
  tess_calls,     \* pages of the current file given to the fast engine, in order
  vlm_calls,      \* images of the current file given to the fallback engine
  loads,          \* returns of load(MODEL_ID), line 207, in this process
  emitted,        \* [page, tag, text] written for the current file, in order
  orphans,        \* extractions in flight whose file processor has exited
  opens, closes,  \* handles opened and close() calls made by the current call
  stale,          \* names whose temporary file the previous process left with text
  prev,           \* "clean" or "errors" when the previous process ran to its end
  \* the naming of input documents, apart from the batch
  in_paths,       \* document paths given to _to_output_name
  out_names       \* the names it returned for them, in order

vars ==
  << files, md, tmp, status, run, pc, pending, done_count, total, i, errors,
     recent_files, chandra_loaded, summary, doc_open, executor, p_idx,
     num_pages, next_future, unit, md_text, tag, outcomes, rendered,
     tess_calls, vlm_calls, loads, emitted, orphans, opens, closes, stale,
     prev, in_paths, out_names >>

nameVars == << in_paths, out_names >>
docObs == << opens, closes >>
fsVars == << md, tmp, status >>
fileVars ==
  << doc_open, executor, p_idx, num_pages, next_future, unit, md_text, tag >>
pageObs == << rendered, tess_calls, vlm_calls, emitted >>
batchVars ==
  << pending, done_count, total, i, errors, recent_files, outcomes, summary >>

NoFuture == [state |-> "none", doc |-> "-", page |-> 0, result |-> NoUnit]
NoSummary == [logged |-> FALSE, done |-> 0, errors |-> 0]

RECURSIVE SeqsUpTo(_, _)
SeqsUpTo(S, k) ==
  IF k = 0 THEN {<<>>}
  ELSE LET shorter == SeqsUpTo(S, k - 1)
       IN  shorter \cup {Append(s, x) : s \in shorter, x \in S}

\* the locals of a process before _run_ocr has run
FreshLocals ==
  /\ pending = <<>> /\ done_count = 0 /\ total = 0 /\ i = 0 /\ errors = 0
  /\ recent_files = <<>> /\ chandra_loaded = FALSE
  /\ summary = NoSummary
  /\ doc_open = FALSE /\ executor = "none" /\ p_idx = 0 /\ num_pages = 0
  /\ next_future = NoFuture /\ unit = NoUnit /\ md_text = <<>> /\ tag = "-"
  /\ outcomes = <<>> /\ rendered = {} /\ tess_calls = <<>> /\ vlm_calls = <<>>
  /\ loads = 0 /\ emitted = <<>> /\ orphans = {} /\ opens = 0 /\ closes = 0

\* the same locals, of the process that follows
ResetLocals ==
  /\ pending' = <<>> /\ done_count' = 0 /\ total' = 0 /\ i' = 0 /\ errors' = 0
  /\ recent_files' = <<>> /\ chandra_loaded' = FALSE
  /\ summary' = NoSummary
  /\ doc_open' = FALSE /\ executor' = "none" /\ p_idx' = 0 /\ num_pages' = 0
  /\ next_future' = NoFuture /\ unit' = NoUnit /\ md_text' = <<>> /\ tag' = "-"
  /\ outcomes' = <<>> /\ rendered' = {} /\ tess_calls' = <<>> /\ vlm_calls' = <<>>
  /\ loads' = 0 /\ emitted' = <<>> /\ orphans' = {} /\ opens' = 0 /\ closes' = 0

Init ==
  /\ files \in SeqsUpTo(Names, MaxFiles) \ {<<>>}
  /\ md = [n \in Names |-> NoFile]
  /\ tmp = [n \in Names |-> NoFile]
  /\ status = NoStatus
  /\ run = 1
  /\ stale = {}
  /\ prev = "none"
  /\ pc = "start"
  /\ FreshLocals
  /\ in_paths = <<>>
  /\ out_names = <<>>

\* the document the orchestrator is at
cur == pending[i]

AlreadyDone_Never(n) == FALSE

\* line 325: the start-up partition's test of the output artifact
AlreadyDone(n) == md[n].exists

RecheckDone_Never(n) == FALSE

\* line 350: the test repeated immediately before processing
RecheckDone(n) == md[n].exists

Submitted(n, page_idx) ==
  [state |-> "submitted", doc |-> n, page |-> page_idx, result |-> NoUnit]

NextSubmit_Same(n, idx) == Submitted(n, idx)

\* line 272: executor.submit(_render_page, doc, p_idx + 1)
NextSubmit(n, idx) == Submitted(n, idx + 1)

HasNextPage_Always(idx, n) == TRUE

\* line 271: if p_idx + 1 < num_pages
HasNextPage(idx, n) == idx + 1 < n

RangeExhausted_Early(idx, n) == idx + 1 >= n

\* line 252: for p_idx in range(num_pages) has no further page
RangeExhausted(idx, n) == idx >= n

AlreadyLoaded_Never(loaded) == FALSE

\* line 199: if state.loaded: return
AlreadyLoaded(loaded) == loaded

DocClose_Skipped(n) == n

\* line 311: doc.close(), one call
DocClose(n) == n + 1

FastCall_Twice(calls, image) == Append(Append(calls, image.page), image.page)

\* line 275: one call of _tesseract_ocr, on the image of the current page
FastCall(calls, image) == Append(calls, image.page)

FallbackText_Gated(tess_text, vlm_text) ==
  IF AlphaCount(vlm_text) < MIN_CHARS_FOR_PAGE THEN tess_text ELSE vlm_text

\* line 282: md is the fallback engine's text, whatever the fast engine read
FallbackText(tess_text, vlm_text) == vlm_text

alive == pc \notin {"start", "done", "killed", "aborted"}
inFile ==
  pc \in {"open", "init", "tmpopen", "page", "await", "ocr", "load", "vlm",
          "write", "rename", "except", "raised", "returned"}

\* the extraction the page driver submitted and never took the result of: no
\* exit of _ocr_one_file cancels it, it stays with the executor's thread
Orphaned(future) ==
  IF future.state = "submitted"
  THEN {[doc |-> future.doc, page |-> future.page]}
  ELSE {}

\* the locals of _ocr_one_file and the observations of its pages, as they are
\* when no file is being processed
NoFileLocals ==
  /\ orphans' = orphans \cup Orphaned(next_future)
  /\ opens' = 0 /\ closes' = 0
  /\ doc_open' = FALSE /\ executor' = "none" /\ p_idx' = 0 /\ num_pages' = 0
  /\ next_future' = NoFuture /\ unit' = NoUnit /\ md_text' = <<>> /\ tag' = "-"
  /\ rendered' = {} /\ tess_calls' = <<>> /\ vlm_calls' = <<>> /\ emitted' = <<>>

\* ------------------------------------------------------ batch orchestrator
\* _run_ocr, lines 318-345, with files left to process
Partition ==
  /\ pc = "start"
  /\ LET pend == SelectSeq(files, LAMBDA f : ~AlreadyDone(f))
     IN  /\ pend # <<>>
         /\ pending' = pend
         /\ done_count' = Len(files) - Len(pend)
  /\ total' = Len(files)
  /\ i' = 1
  /\ pc' = "loop"
  /\ UNCHANGED << nameVars, docObs, orphans, files, fsVars, run, errors, recent_files, chandra_loaded,
                  summary, fileVars, outcomes, pageObs, loads, stale, prev >>

\* _run_ocr, lines 333-336: every file has its artifact
NothingToOcr ==
  /\ pc = "start"
  /\ SelectSeq(files, LAMBDA f : ~AlreadyDone(f)) = <<>>
  /\ done_count' = Len(files)
  /\ total' = Len(files)
  /\ status' = Snapshot(Len(files), Len(files), 0, "-", 0, 0, <<>>)
  /\ pc' = "done"
  /\ UNCHANGED << nameVars, docObs, orphans, files, md, tmp, run, pending, i, errors, recent_files, chandra_loaded, summary, fileVars, outcomes, pageObs, loads,
                  stale, prev >>

\* the same, the status write raising: the exception leaves _run_ocr
NothingToOcrFails ==
  /\ pc = "start"
  /\ SelectSeq(files, LAMBDA f : ~AlreadyDone(f)) = <<>>
  /\ done_count' = Len(files)
  /\ total' = Len(files)
  /\ pc' = "aborted"
  /\ UNCHANGED << nameVars, docObs, orphans, files, fsVars, run, pending, i, errors, recent_files, chandra_loaded, summary, fileVars, outcomes, pageObs, loads,
                  stale, prev >>

\* lines 347-351: the artifact exists by now, the file is skipped
LoopSkip ==
  /\ pc = "loop"
  /\ i <= Len(pending)
  /\ RecheckDone(cur)
  /\ done_count' = done_count + 1
  /\ outcomes' = Append(outcomes, "skipped")
  /\ i' = i + 1
  /\ UNCHANGED << nameVars, docObs, orphans, files, fsVars, run, pc, pending, total, errors, recent_files,
                  chandra_loaded, summary, fileVars, pageObs, loads,
                  stale, prev >>

\* lines 352-369 and 237-241: _ocr_one_file is called
LoopEnter ==
  /\ pc = "loop"
  /\ i <= Len(pending)
  /\ ~RecheckDone(cur)
  /\ pc' = "open"
  /\ UNCHANGED << nameVars, docObs, orphans, files, fsVars, run, batchVars, chandra_loaded, fileVars,
                  pageObs, loads, stale, prev >>

\* lines 400-402: the pending list is exhausted, the summary is logged
LoopEnd ==
  /\ pc = "loop"
  /\ i > Len(pending)
  /\ summary' = [logged |-> TRUE, done |-> done_count + Len(pending), errors |-> errors]
  /\ pc' = "done"
  /\ UNCHANGED << nameVars, docObs, orphans, files, fsVars, run, pending, done_count, total, i, errors,
                  recent_files, outcomes, chandra_loaded, fileVars,
                  pageObs, loads, stale, prev >>

\* lines 370-394: _ocr_one_file returned
FileDone ==
  /\ pc = "returned"
  /\ recent_files' = Append(recent_files, [name |-> cur, pages |-> num_pages])
  /\ status' = Snapshot(done_count + i, total, errors, "-", 0, 0, recent_files')
  /\ outcomes' = Append(outcomes, "ok")
  /\ i' = i + 1
  /\ pc' = "loop"
  /\ NoFileLocals
  /\ UNCHANGED << nameVars, files, md, tmp, run, pending, done_count, total, errors, summary,
                  chandra_loaded, loads, stale, prev >>

\* lines 370-398: _ocr_one_file returned and the status write at 381 raises
FileDoneFails ==
  /\ pc = "returned"
  /\ recent_files' = Append(recent_files, [name |-> cur, pages |-> num_pages])
  /\ errors' = errors + 1
  /\ outcomes' = Append(outcomes, "postfail")
  /\ i' = i + 1
  /\ pc' = "loop"
  /\ NoFileLocals
  /\ UNCHANGED << nameVars, files, fsVars, run, pending, done_count, total, summary, chandra_loaded, loads, stale, prev >>

ErrorIncrement_Two(e) == e + 2

\* line 396: errors += 1
ErrorIncrement(e) == e + 1

\* lines 395-398: _ocr_one_file raised
Caught ==
  /\ pc = "raised"
  /\ errors' = ErrorIncrement(errors)
  /\ outcomes' = Append(outcomes, "failed")
  /\ i' = i + 1
  /\ pc' = "loop"
  /\ NoFileLocals
  /\ UNCHANGED << nameVars, files, fsVars, run, pending, done_count, total, recent_files,
                  summary, chandra_loaded, loads, stale, prev >>

\* ---------------------------------------------------------- file processor
\* line 242: doc = pdfium.PdfDocument(pdf)
OpenDoc ==
  /\ pc = "open"
  /\ doc_open' = TRUE
  /\ pc' = "init"
  /\ opens' = opens + 1
  /\ closes' = closes
  /\ UNCHANGED << nameVars, orphans, files, fsVars, run, batchVars, chandra_loaded, executor,
                  p_idx, num_pages, next_future, unit, md_text, tag, pageObs,
                  loads, stale, prev >>

\* line 242 raises: the statement stands before the try, so neither the
\* except clause nor the finally clause runs
OpenDocFails ==
  /\ pc = "open"
  /\ pc' = "raised"
  /\ UNCHANGED << nameVars, docObs, orphans, files, fsVars, run, batchVars, chandra_loaded, fileVars,
                  pageObs, loads, stale, prev >>

\* lines 244-248: init_forms, len(doc), the executor
InitForms ==
  /\ pc = "init"
  /\ num_pages' = NumPages(cur)
  /\ executor' = "running"
  /\ pc' = "tmpopen"
  /\ UNCHANGED << nameVars, docObs, orphans, files, fsVars, run, batchVars, chandra_loaded, doc_open,
                  p_idx, next_future, unit, md_text, tag, pageObs, loads, stale,
                  prev >>

\* line 244 raises
InitFormsFails ==
  /\ pc = "init"
  /\ pc' = "except"
  /\ UNCHANGED << nameVars, docObs, orphans, files, fsVars, run, batchVars, chandra_loaded, fileVars,
                  pageObs, loads, stale, prev >>

\* lines 249-250: the temporary file is opened for writing and page 0's
\* extraction is submitted
TmpOpen ==
  /\ pc = "tmpopen"
  /\ tmp' = [tmp EXCEPT ![cur] = OpenForWrite(tmp[cur])]
  /\ next_future' = Submitted(cur, 0)
  /\ p_idx' = 0
  /\ pc' = "page"
  /\ UNCHANGED << nameVars, docObs, orphans, files, md, status, run, batchVars, chandra_loaded,
                  doc_open, executor, num_pages, unit, md_text, tag, pageObs,
                  loads, stale, prev >>

\* line 249 raises
TmpOpenFails ==
  /\ pc = "tmpopen"
  /\ pc' = "except"
  /\ UNCHANGED << nameVars, docObs, orphans, files, fsVars, run, batchVars, chandra_loaded, fileVars,
                  pageObs, loads, stale, prev >>

\* lines 252-266: the per-page status write
PageProgress ==
  /\ pc = "page"
  /\ ~RangeExhausted(p_idx, num_pages)
  /\ status' = Snapshot(done_count + i - 1, total, errors, cur, p_idx + 1,
                        num_pages, recent_files)
  /\ pc' = "await"
  /\ UNCHANGED << nameVars, docObs, orphans, files, md, tmp, run, batchVars, chandra_loaded, fileVars,
                  pageObs, loads, stale, prev >>

\* line 253 raises
PageProgressFails ==
  /\ pc = "page"
  /\ ~RangeExhausted(p_idx, num_pages)
  /\ pc' = "except"
  /\ UNCHANGED << nameVars, docObs, orphans, files, fsVars, run, batchVars, chandra_loaded, fileVars,
                  pageObs, loads, stale, prev >>

\* lines 252, 300: range(num_pages) is exhausted, the output file is closed
\* and the executor shut down without waiting
PagesDone ==
  /\ pc = "page"
  /\ RangeExhausted(p_idx, num_pages)
  /\ executor' = "shutdown"
  /\ pc' = "rename"
  /\ UNCHANGED << nameVars, docObs, orphans, files, fsVars, run, batchVars, chandra_loaded, doc_open,
                  p_idx, num_pages, next_future, unit, md_text, tag, pageObs,
                  loads, stale, prev >>

\* lines 269-272: the extraction result is taken and the next page submitted
AwaitResult ==
  /\ pc = "await"
  /\ next_future.state = "done"
  /\ ~next_future.result.exc
  /\ unit' = next_future.result
  /\ next_future' = IF HasNextPage(p_idx, num_pages)
                     THEN NextSubmit(cur, p_idx)
                     ELSE next_future
  /\ pc' = "ocr"
  /\ UNCHANGED << nameVars, docObs, orphans, files, fsVars, run, batchVars, chandra_loaded, doc_open,
                  executor, p_idx, num_pages, md_text, tag, pageObs, loads, stale,
                  prev >>

\* line 269: next_future.result() re-raises the extraction's exception
AwaitRaises ==
  /\ pc = "await"
  /\ next_future.state = "done"
  /\ next_future.result.exc
  /\ pc' = "except"
  /\ UNCHANGED << nameVars, docObs, orphans, files, fsVars, run, batchVars, chandra_loaded, fileVars,
                  pageObs, loads, stale, prev >>

\* the background worker runs _render_page for the submitted page
Worker ==
  /\ alive
  /\ next_future.state = "submitted"
  /\ LET r == RenderPage(next_future.doc, next_future.page)
     IN  /\ next_future' = [next_future EXCEPT !.state = "done", !.result = r]
         /\ rendered' = IF r.isImage THEN rendered \cup {next_future.page} ELSE rendered
  /\ UNCHANGED << nameVars, docObs, orphans, files, fsVars, run, pc, batchVars, chandra_loaded,
                  doc_open, executor, p_idx, num_pages, unit, md_text, tag,
                  tess_calls, vlm_calls, emitted, loads, stale, prev >>

\* _render_page raises in the worker (lines 155-167)
WorkerFails ==
  /\ alive
  /\ next_future.state = "submitted"
  /\ next_future' = [next_future EXCEPT !.state = "done",
                       !.result = [NoUnit EXCEPT !.exc = TRUE, !.doc = next_future.doc,
                                                 !.page = next_future.page]]
  /\ UNCHANGED << nameVars, docObs, orphans, files, fsVars, run, pc, batchVars, chandra_loaded,
                  doc_open, executor, p_idx, num_pages, unit, md_text, tag, pageObs,
                  loads, stale, prev >>

\* the thread of an executor whose file processor has exited finishes the
\* extraction left with it; nobody takes the result
OrphanWorker ==
  /\ alive
  /\ \E t \in orphans : orphans' = orphans \ {t}
  /\ UNCHANGED << nameVars, docObs, files, fsVars, run, pc, batchVars,
                  chandra_loaded, fileVars, pageObs, loads, stale, prev >>

\* lines 286-289: the page has native text
NativeText ==
  /\ pc = "ocr"
  /\ ~unit.isImage
  /\ md_text' = unit.text
  /\ tag' = "txt"
  /\ pc' = "write"
  /\ UNCHANGED << nameVars, docObs, orphans, files, fsVars, run, batchVars, chandra_loaded, doc_open, executor,
                  p_idx, num_pages, next_future, unit, pageObs, loads, stale,
                  prev >>

\* lines 275-279: the fast engine's text passes the quality gate
TessAccept ==
  /\ pc = "ocr"
  /\ unit.isImage
  /\ TesseractQualityOk(TesseractOcr(unit))
  /\ tess_calls' = FastCall(tess_calls, unit)
  /\ md_text' = TesseractOcr(unit)
  /\ tag' = "tess"
  /\ pc' = "write"
  /\ UNCHANGED << nameVars, docObs, orphans, files, fsVars, run, batchVars, chandra_loaded, doc_open, executor,
                  p_idx, num_pages, next_future, unit, rendered, vlm_calls, emitted,
                  loads, stale, prev >>

\* lines 275-276, 280: the fast engine's text fails the quality gate
TessReject ==
  /\ pc = "ocr"
  /\ unit.isImage
  /\ ~TesseractQualityOk(TesseractOcr(unit))
  /\ tess_calls' = FastCall(tess_calls, unit)
  /\ pc' = "load"
  /\ UNCHANGED << nameVars, docObs, orphans, files, fsVars, run, batchVars, chandra_loaded, doc_open,
                  executor, p_idx, num_pages, next_future, unit, md_text, tag,
                  rendered, vlm_calls, emitted, loads, stale, prev >>

\* line 275 raises
TessFails ==
  /\ pc = "ocr"
  /\ unit.isImage
  /\ tess_calls' = FastCall(tess_calls, unit)
  /\ pc' = "except"
  /\ UNCHANGED << nameVars, docObs, orphans, files, fsVars, run, batchVars, chandra_loaded, fileVars,
                  rendered, vlm_calls, emitted, loads, stale, prev >>

\* line 281, _load_chandra: loads the model unless it is loaded
LoadChandra ==
  /\ pc = "load"
  /\ chandra_loaded' = TRUE
  /\ loads' = IF AlreadyLoaded(chandra_loaded) THEN loads ELSE loads + 1
  /\ pc' = "vlm"
  /\ UNCHANGED << nameVars, docObs, orphans, files, fsVars, run, batchVars,
                  fileVars, pageObs, stale, prev >>

\* _load_chandra raises before load(MODEL_ID) has returned (lines 201-207)
LoadChandraFails ==
  /\ pc = "load"
  /\ ~AlreadyLoaded(chandra_loaded)
  /\ pc' = "except"
  /\ UNCHANGED << nameVars, docObs, orphans, files, fsVars, run, batchVars,
                  chandra_loaded, fileVars, pageObs, loads, stale, prev >>

\* _load_chandra raises after load(MODEL_ID) has returned (lines 208-212):
\* the model was loaded and state.loaded is not set
LoadChandraConfigFails ==
  /\ pc = "load"
  /\ ~AlreadyLoaded(chandra_loaded)
  /\ loads' = loads + 1
  /\ pc' = "except"
  /\ UNCHANGED << nameVars, docObs, orphans, files, fsVars, run, batchVars,
                  chandra_loaded, fileVars, pageObs, stale, prev >>

\* lines 282-285: the fallback engine's text is taken as it is
ChandraInfer ==
  /\ pc = "vlm"
  /\ vlm_calls' = Append(vlm_calls, [doc |-> unit.doc, page |-> unit.page])
  /\ md_text' = FallbackText(TesseractOcr(unit), ChandraOcr(unit))
  /\ tag' = "vlm"
  /\ pc' = "write"
  /\ UNCHANGED << nameVars, docObs, orphans, files, fsVars, run, batchVars, chandra_loaded, doc_open, executor,
                  p_idx, num_pages, next_future, unit, rendered, tess_calls,
                  emitted, loads, stale, prev >>

\* line 282 raises
ChandraFails ==
  /\ pc = "vlm"
  /\ vlm_calls' = Append(vlm_calls, [doc |-> unit.doc, page |-> unit.page])
  /\ pc' = "except"
  /\ UNCHANGED << nameVars, docObs, orphans, files, fsVars, run, batchVars, chandra_loaded, fileVars,
                  rendered, tess_calls, emitted, loads, stale, prev >>

\* lines 291-294: separator, page text, flush
WritePage ==
  /\ pc = "write"
  /\ tmp' = [tmp EXCEPT ![cur] =
               FileOf(tmp[cur].data \o PageSeparator(p_idx) \o md_text)]
  /\ emitted' = Append(emitted, [page |-> p_idx, tag |-> tag, text |-> md_text])
  /\ p_idx' = p_idx + 1
  /\ pc' = "page"
  /\ UNCHANGED << nameVars, docObs, orphans, files, md, status, run, batchVars, chandra_loaded,
                  doc_open, executor, num_pages, next_future, unit, md_text, tag,
                  rendered, tess_calls, vlm_calls, loads, stale, prev >>

\* lines 292-294 raise
WritePageFails ==
  /\ pc = "write"
  /\ pc' = "except"
  /\ UNCHANGED << nameVars, docObs, orphans, files, fsVars, run, batchVars, chandra_loaded, fileVars,
                  pageObs, loads, stale, prev >>

\* lines 302-304, 311: the rename, then the document is closed on the way out
Rename ==
  /\ pc = "rename"
  /\ md' = [md EXCEPT ![cur] = tmp[cur]]
  /\ tmp' = [tmp EXCEPT ![cur] = NoFile]
  /\ doc_open' = FALSE
  /\ pc' = "returned"
  /\ closes' = DocClose(closes)
  /\ opens' = opens
  /\ UNCHANGED << nameVars, orphans, files, status, run, batchVars, chandra_loaded, executor,
                  p_idx, num_pages, next_future, unit, md_text, tag, pageObs, loads,
                  stale, prev >>

\* line 302 raises
RenameFails ==
  /\ pc = "rename"
  /\ pc' = "except"
  /\ UNCHANGED << nameVars, docObs, orphans, files, fsVars, run, batchVars, chandra_loaded, fileVars,
                  pageObs, loads, stale, prev >>

\* lines 305-311: both paths are unlinked when they exist, the document is
\* closed, the exception goes on to the caller
Except ==
  /\ pc = "except"
  /\ tmp' = [tmp EXCEPT ![cur] = NoFile]
  /\ md' = [md EXCEPT ![cur] = NoFile]
  /\ doc_open' = FALSE
  /\ pc' = "raised"
  /\ closes' = DocClose(closes)
  /\ opens' = opens
  /\ UNCHANGED << nameVars, orphans, files, status, run, batchVars, chandra_loaded, executor,
                  p_idx, num_pages, next_future, unit, md_text, tag, pageObs, loads,
                  stale, prev >>

\* ------------------------------------------------------------- the process
\* the process is terminated: only the file system is left
Kill ==
  /\ pc \notin {"done", "killed", "aborted"}
  /\ ResetLocals
  /\ status' = NoStatus
  /\ pc' = "killed"
  /\ UNCHANGED << nameVars, files, md, tmp, run, stale, prev >>

\* the batch is run again on the same input set
StartRun ==
  /\ pc \in {"done", "killed", "aborted"}
  /\ run < MaxRuns
  /\ run' = run + 1
  /\ stale' = {n \in Names : tmp[n].exists /\ tmp[n].data # <<>>}
  /\ prev' = IF pc # "done" THEN "none" ELSE IF errors = 0 THEN "clean" ELSE "errors"
  /\ status' = NoStatus
  /\ ResetLocals
  /\ pc' = "start"
  /\ UNCHANGED << nameVars, files, md, tmp >>

\* the steps of the main sequence of control
MainStep ==
  \/ Partition \/ NothingToOcr \/ NothingToOcrFails
  \/ LoopSkip \/ LoopEnter \/ LoopEnd \/ FileDone \/ FileDoneFails \/ Caught
  \/ OpenDoc \/ OpenDocFails \/ InitForms \/ InitFormsFails
  \/ TmpOpen \/ TmpOpenFails \/ PageProgress \/ PageProgressFails \/ PagesDone
  \/ AwaitResult \/ AwaitRaises
  \/ NativeText \/ TessAccept \/ TessReject \/ TessFails
  \/ LoadChandra \/ LoadChandraFails \/ LoadChandraConfigFails
  \/ ChandraInfer \/ ChandraFails
  \/ WritePage \/ WritePageFails \/ Rename \/ RenameFails \/ Except

\* the steps of the executors' worker threads
WorkerStep == Worker \/ WorkerFails \/ OrphanWorker

Next == MainStep \/ WorkerStep \/ Kill \/ StartRun

Spec == Init /\ [][Next]_vars

\* the main sequence keeps running while the process lives, and so does the
\* worker thread once a task is submitted to it
FairSpec == Spec /\ WF_vars(MainStep) /\ WF_vars(WorkerStep)

\* --------------------------------------------------- naming, on its own
\* two documents of an input set are named, as the partition (line 324) and
\* the loop (line 348) do for every file
NameInit ==
  /\ in_paths \in [1 .. 2 -> Paths]
  /\ out_names = <<>>
  /\ files = <<"A">>
  /\ md = [n \in Names |-> NoFile]
  /\ tmp = [n \in Names |-> NoFile]
  /\ status = NoStatus
  /\ run = 1
  /\ stale = {}
  /\ prev = "none"
  /\ pc = "start"
  /\ FreshLocals

NameNext ==
  /\ Len(out_names) < Len(in_paths)
  /\ out_names' = Append(out_names, ToOutputName(in_paths[Len(out_names) + 1]))
  /\ UNCHANGED << in_paths, files, fsVars, run, pc, batchVars, chandra_loaded,
                  fileVars, pageObs, loads, orphans, docObs, stale, prev >>

NameSpec == NameInit /\ [][NameNext]_vars

\* ------------------------------------------- a long input set, on its own
\* One process over HistFiles one-page documents, the first of them listed
\* once more at the end; a document may fail to open.
HistInit ==
  /\ files = [k \in 1 .. HistFiles + 1 |->
                IF k <= HistFiles THEN HistName(k) ELSE HistName(1)]
  /\ md = [n \in HistNames |-> NoFile]
  /\ tmp = [n \in HistNames |-> NoFile]
  /\ status = NoStatus
  /\ run = 1
  /\ stale = {}
  /\ prev = "none"
  /\ pc = "start"
  /\ FreshLocals
  /\ in_paths = <<>>
  /\ out_names = <<>>

HistNext ==
  \/ Partition \/ LoopSkip \/ LoopEnter \/ LoopEnd
  \/ FileDone \/ Caught
  \/ OpenDoc \/ OpenDocFails \/ InitForms \/ TmpOpen
  \/ PageProgress \/ PagesDone \/ AwaitResult \/ Worker
  \/ NativeText \/ WritePage \/ Rename

HistSpec == HistInit /\ [][HistNext]_vars

\* ------------------------------------------------------------- properties
\* What the specification says of a page and of a file's output, stated
\* without the program's steps.
Range(s) == {s[k] : k \in DOMAIN s}

HasNativeText(pg) == AlphaCount(pg.emb) >= NATIVE_TEXT_THRESHOLD

GatePasses(text) ==
  /\ AlphaCount(text) >= MIN_CHARS_FOR_PAGE
  /\ DiacriticsCount(text) * MIN_DIACRITICS_RATIO_DEN
       >= MIN_DIACRITICS_RATIO_NUM * AlphaCount(text)

PageText(n, k) ==
  LET pg == Docs[n][k + 1]
  IN  IF HasNativeText(pg) THEN Strip(pg.emb)
      ELSE IF GatePasses(pg.tess) THEN pg.tess ELSE pg.vlm

\* the texts of pages 0 .. k-1 with one separator between consecutive pages
RECURSIVE JoinPages(_, _)
JoinPages(n, k) ==
  IF k = 0 THEN <<>>
  ELSE IF k = 1 THEN PageText(n, 0)
  ELSE JoinPages(n, k - 1) \o SEP \o PageText(n, k - 1)

Expected(n) == JoinPages(n, NumPages(n))

\* the texts this call of the file processor wrote, joined
RECURSIVE JoinEmitted(_)
JoinEmitted(es) ==
  IF Len(es) = 0 THEN <<>>
  ELSE IF Len(es) = 1 THEN es[1].text
  ELSE JoinEmitted(SubSeq(es, 1, Len(es) - 1)) \o SEP \o es[Len(es)].text

InOrder(es) == \A k \in DOMAIN es : es[k].page = k - 1

writing == pc \in {"page", "await", "ocr", "load", "vlm", "write", "rename"}

\* C1: the final output path of a file never holds a proper prefix of the
\* file's pages, and it comes into being only by the rename of the temporary
\* file after the last page was written; nothing else ever changes it.
C1_FinalPathAtomic ==
  /\ [](\A n \in Names :
          md[n].exists =>
            \A k \in 0 .. NumPages(n) - 1 :
              JoinPages(n, k) # Expected(n) => md[n].data # JoinPages(n, k))
  /\ [][\A n \in Names :
          md'[n] # md[n] =>
            /\ ~md[n].exists
            /\ pc = "rename"
            /\ cur = n
            /\ p_idx = NumPages(n)
            /\ Len(emitted) = NumPages(n)
            /\ tmp[n].exists
            /\ md'[n] = tmp[n]]_vars

\* one file is complete, the process was killed after two pages of another
C1_Witness ==
  /\ pc = "killed"
  /\ md["B"].exists
  /\ ~md["A"].exists
  /\ tmp["A"] = FileOf(JoinPages("A", 2))

\* C2: the start-up partition leaves every file with an artifact out of the
\* pending list, the file processor is entered only for a file without an
\* artifact at that moment, and an artifact that exists is never changed.
C2_DoneFilesNotReprocessed ==
  [][/\ (pc = "start" /\ pc' = "loop" =>
           /\ \A k \in DOMAIN pending' : ~md[pending'[k]].exists
           /\ \A n \in Range(files) : ~md[n].exists => n \in Range(pending'))
     /\ (pc = "loop" /\ pc' = "open" => ~md[cur].exists)
     /\ \A n \in Names : md[n].exists => md'[n] = md[n]]_vars

\* a second process, run after a kill, completed a file and then skipped its
\* second listing at the re-check
C2_Witness ==
  /\ run = 2
  /\ stale # {}
  /\ pc = "loop"
  /\ outcomes = <<"ok", "skipped">>
  /\ md[pending[1]].exists

\* C3: when the file processor has raised, neither the temporary path nor
\* the final path of that file exists.
C3_FailureLeavesNoArtifact ==
  pc = "raised" => ~tmp[cur].exists /\ ~md[cur].exists

\* C4: an exception of the file processor adds exactly one to errors and
\* moves the loop to the next pending file; when the summary is logged every
\* pending file was attempted or skipped and errors counts the failures; a
\* run that is not killed reaches the summary.
C4_FailuresIsolated ==
  /\ [][pc = "raised" /\ pc' \notin {"raised", "killed"} =>
          /\ pc' = "loop"
          /\ errors' = errors + 1
          /\ i' = i + 1
          /\ pending' = pending]_vars
  /\ [](summary.logged =>
          /\ Len(outcomes) = Len(pending)
          /\ errors = Cardinality({k \in DOMAIN outcomes :
                                     outcomes[k] \in {"failed", "postfail"}}))
  /\ (pc = "loop" ~> pc \in {"done", "killed"})

\* the first file failed, the second was processed, the summary is logged
C4_Witness ==
  /\ pc = "done"
  /\ summary.logged
  /\ errors = 1
  /\ outcomes = <<"failed", "ok">>

\* C5: while a file is processed its temporary file holds exactly the texts
\* of pages 0 .. p_idx-1 in ascending order, one separator between
\* consecutive pages; what is renamed into place is that for all pages.
C5_PagesInOrder ==
  /\ writing =>
       /\ tmp[cur] = FileOf(JoinPages(cur, p_idx))
       /\ Len(emitted) = p_idx
       /\ InOrder(emitted)
  /\ pc = "returned" =>
       /\ md[cur] = FileOf(Expected(cur))
       /\ Len(emitted) = NumPages(cur)
       /\ InOrder(emitted)

\* the three-page document is complete
C5_Witness ==
  /\ pc = "returned"
  /\ cur = "A"
  /\ Len(emitted) = 3
  /\ md["A"].exists

\* C6: a page whose embedded text has at least 50 alphabetic characters is
\* never rendered and never given to either engine; what is written for it
\* is the stripped embedded text, tagged txt.
C6_NativeShortcutExclusive ==
  inFile =>
    \A k \in 0 .. NumPages(cur) - 1 :
      AlphaCount(Docs[cur][k + 1].emb) >= NATIVE_TEXT_THRESHOLD =>
        /\ k \notin rendered
        /\ k \notin Range(tess_calls)
        /\ \A c \in Range(vlm_calls) : c.page # k
        /\ \A e \in Range(emitted) :
             e.page = k => e.tag = "txt" /\ e.text = Strip(Docs[cur][k + 1].emb)

\* the native page of the three-page document was written
C6_Witness ==
  /\ pc = "page"
  /\ cur = "A"
  /\ Len(emitted) = 1
  /\ emitted[1].tag = "txt"
  /\ emitted[1].text = Rep("a", 50)

\* C7: a rendered page goes to the fast engine first; its text is taken,
\* tagged tess, iff it has at least 50 alphabetic characters and a diacritic
\* ratio of at least 0.15, and then the fallback engine is neither loaded
\* nor invoked for the page.
C7_FastEngineGate ==
  inFile =>
    /\ \A e \in Range(emitted) :
         e.page \in rendered =>
           /\ e.page \in Range(tess_calls)
           /\ e.tag = "tess" <=> GatePasses(Docs[cur][e.page + 1].tess)
           /\ e.tag = "tess" =>
                /\ e.text = Docs[cur][e.page + 1].tess
                /\ \A c \in Range(vlm_calls) : c.page # e.page
    /\ \A c \in Range(vlm_calls) :
         /\ c.page \in Range(tess_calls)
         /\ ~GatePasses(Docs[cur][c.page + 1].tess)
    /\ pc \in {"load", "vlm"} =>
         /\ unit.isImage
         /\ unit.page \in Range(tess_calls)
         /\ ~GatePasses(Docs[cur][unit.page + 1].tess)

\* a page at the ratio 0.15 exactly was taken from the fast engine while the
\* fallback engine was never loaded
C7_Witness ==
  /\ inFile
  /\ cur = "A"
  /\ Len(emitted) >= 2
  /\ emitted[2].tag = "tess"
  /\ vlm_calls = <<>>
  /\ ~chandra_loaded

\* C8: for a rendered page whose fast-engine text fails either condition
\* the fallback engine is invoked exactly once, on that page's image, and
\* its text is written as it is, tagged vlm, whatever it holds.
C8_FallbackVerbatim ==
  inFile =>
    /\ \A e \in Range(emitted) :
         (e.page \in rendered /\ ~GatePasses(Docs[cur][e.page + 1].tess)) =>
           /\ e.tag = "vlm"
           /\ e.text = Docs[cur][e.page + 1].vlm
           /\ Cardinality({k \in DOMAIN vlm_calls :
                             vlm_calls[k] = [doc |-> cur, page |-> e.page]}) = 1
    /\ \A j, k \in DOMAIN vlm_calls :
         vlm_calls[j].page = vlm_calls[k].page => j = k
    /\ \A c \in Range(vlm_calls) : c.doc = cur /\ c.page \in rendered

\* the fallback engine returned the empty text and it was written
C8_Witness ==
  /\ inFile
  /\ cur = "B"
  /\ Len(emitted) >= 1
  /\ emitted[1].tag = "vlm"
  /\ emitted[1].text = <<>>
  /\ Len(vlm_calls) = 1

\* C9: a file whose temporary file an earlier process left behind is pending
\* in the next process; when it is processed the temporary file holds only
\* what this process wrote, from page 0 on, and so does the final output.
C9_StaleTempDiscarded ==
  /\ pc \notin {"start", "killed", "aborted"} =>
       \A n \in stale : n \in Range(pending)
  /\ writing =>
       /\ tmp[cur] = FileOf(JoinEmitted(emitted))
       /\ InOrder(emitted)
       /\ Len(emitted) = p_idx
  /\ pc = "returned" =>
       /\ md[cur] = FileOf(JoinEmitted(emitted))
       /\ InOrder(emitted)
       /\ Len(emitted) = num_pages

\* the second process completed a file whose temporary file held text
C9_Witness ==
  /\ run = 2
  /\ pc = "returned"
  /\ cur \in stale
  /\ num_pages >= 2
  /\ md[cur].exists

C11_OutputNamesCollisionFree ==
  (Len(out_names) = 2 /\ in_paths[1] # in_paths[2]) => out_names[1] # out_names[2]

\* the files completed so far: those whose artifact existed at the start of
\* the run, those this run processed to the end, and those it skipped at the
\* re-check because their artifact exists by now
CompletedCount ==
  (Len(files) - Len(pending))
    + Cardinality({k \in DOMAIN outcomes : outcomes[k] \in {"ok", "skipped"}})

\* C12: the done count of a status snapshot, at the moment it is written, and
\* of the final summary is the number of completed files, failed files not
\* among them; a run that ends without errors reports done = total.
C12_DoneCountsCompleted ==
  /\ pc = "await" => status.done = CompletedCount
  /\ (pc = "loop" /\ outcomes # <<>> /\ outcomes[Len(outcomes)] = "ok") =>
       status.done = CompletedCount
  /\ summary.logged =>
       /\ summary.done = CompletedCount
       /\ summary.errors = 0 => summary.done = Len(files)

\* C13: while a page is being read or recognised the status is the snapshot
\* written for that page, and once a file has finished, completed or failed,
\* the status is a snapshot written after it, carrying the running error
\* count.
C13_ProgressAfterEveryFile ==
  /\ pc \in {"await", "ocr", "load", "vlm", "write"} =>
       /\ status.exists
       /\ status.current_file = cur
       /\ status.current_page = p_idx + 1
       /\ status.current_pages_total = num_pages
  /\ (pc \in {"loop", "done"} /\ outcomes # <<>>
        /\ outcomes[Len(outcomes)] \in {"ok", "failed"}) =>
       /\ status.exists
       /\ status.current_file = "-"
       /\ status.errors = errors

\* the files the file processor completed in this run, in completion order
CompletedSeq ==
  LET idx == SelectSeq([k \in 1 .. Len(outcomes) |-> k],
                       LAMBDA k : outcomes[k] \in {"ok", "postfail"})
  IN  [j \in 1 .. Len(idx) |-> pending[idx[j]]]

HistoryNames(rs) == [k \in 1 .. Len(rs) |-> rs[k].name]

\* the last min(m, Len(s)) elements of s
MostRecent(s, m) ==
  LET k == IF Len(s) < m THEN Len(s) ELSE m
  IN  [j \in 1 .. k |-> s[Len(s) - k + j]]

\* C14: a status snapshot never holds more than 10 history entries; when it
\* is written after k completed files its history is the min(10, k) most
\* recently completed files in completion order; a failed attempt and a
\* skipped listing add no entry, so every entry is a file that this run
\* processed to the end.
C14_RecentHistoryBounded ==
  /\ Len(status.recent_files) <= 10
  /\ HistoryNames(recent_files) = CompletedSeq
  /\ (pc = "await" \/ (pc = "loop" /\ outcomes # <<>>
                                     /\ outcomes[Len(outcomes)] = "ok")) =>
       HistoryNames(status.recent_files) = MostRecent(CompletedSeq, 10)
  /\ \A j \in DOMAIN status.recent_files :
       \E k \in DOMAIN outcomes :
         /\ outcomes[k] \in {"ok", "postfail"}
         /\ pending[k] = status.recent_files[j].name

\* eleven files were completed, one failed and one listing was skipped; the
\* status holds the last ten of the eleven
C14_Witness ==
  /\ pc = "done"
  /\ Len(recent_files) = 11
  /\ Len(status.recent_files) = 10
  /\ status.recent_files[1] = recent_files[2]
  /\ \E k \in DOMAIN outcomes : outcomes[k] = "failed"
  /\ \E k \in DOMAIN outcomes : outcomes[k] = "skipped"

\* C15: when the file processor has returned or raised, the executor it
\* created has been shut down.
C15_ExecutorShutDownOnExit ==
  pc \in {"returned", "raised"} => executor # "running"

atOcr == pc \in {"ocr", "load", "vlm", "write"}

\* the page driver of the file being processed: the extraction of page n is
\* in the slot before page n's turn, its result is taken before page n+1 is
\* submitted, page n+1 is submitted (unless n is the last page) before page
\* n's OCR, and nothing is ever submitted further ahead
DriverProtocol ==
  /\ (pc \in {"page", "await"} /\ p_idx < num_pages) =>
       /\ next_future.state # "none"
       /\ next_future.doc = cur
       /\ next_future.page = p_idx
  /\ atOcr =>
       /\ unit.doc = cur
       /\ unit.page = p_idx
       /\ next_future.doc = cur
       /\ p_idx + 1 < num_pages => next_future.page = p_idx + 1
       /\ p_idx + 1 >= num_pages =>
            next_future.page = p_idx /\ next_future.state = "done"
  /\ (inFile /\ next_future.state # "none") =>
       /\ next_future.page <= p_idx + 1
       /\ next_future.page < num_pages \/ next_future.page = 0

\* the extractions submitted and not finished, of any file
InFlight == orphans \cup Orphaned(next_future)

EngineCalls == Len(tess_calls) + Len(vlm_calls)

engineTurn == (pc = "ocr" /\ unit.isImage) \/ pc = "vlm"

C18_DocumentClosedOnce ==
  /\ opens <= 1
  /\ closes <= opens
  /\ doc_open <=> (opens = 1 /\ closes = 0)
  /\ pc \in {"returned", "raised"} => closes = opens
  /\ ~inFile => ~doc_open /\ opens = 0

\* the three-page document failed at its second page and was closed
C18_Witness ==
  /\ pc = "raised"
  /\ cur = "A"
  /\ p_idx = 1
  /\ opens = 1
  /\ closes = 1
  /\ ~doc_open

\* C19 as claimed: the model is loaded at most once in a batch run.
C19_ModelLoadedAtMostOnce == loads <= 1

\* C19 amended: the model is loaded only at a page whose fast-engine text
\* failed the gate, and only while state.loaded is unset; no fallback
\* inference is made before state.loaded is set; once it is set it stays set
\* for the rest of the run and no later page or file loads again.  A load
\* that raised leaves it unset, and the next failing page loads anew.
C19_ModelLoadedLazilyOnce ==
  /\ [][loads' > loads =>
          /\ loads' = loads + 1
          /\ pc = "load"
          /\ ~chandra_loaded
          /\ unit.isImage
          /\ ~GatePasses(Docs[unit.doc][unit.page + 1].tess)]_vars
  /\ [][(chandra_loaded' /\ ~chandra_loaded) => loads' = loads + 1]_vars
  /\ [][(chandra_loaded /\ pc' \notin {"killed", "start"}) =>
          chandra_loaded' /\ loads' = loads]_vars
  /\ [](pc = "vlm" \/ vlm_calls # <<>> => chandra_loaded)
  /\ [](~chandra_loaded /\ loads = 0 => vlm_calls = <<>>)

\* the second file of the run had a page recognised by the fallback engine
\* with the model that the first file loaded
C19_Witness ==
  /\ i = 2
  /\ outcomes = <<"ok">>
  /\ pc = "write"
  /\ tag = "vlm"
  /\ chandra_loaded
  /\ loads = 1

\* the calls of the file processor for document n in this run
Invocations(n) ==
  Cardinality({k \in DOMAIN outcomes : pending[k] = n /\ outcomes[k] # "skipped"})
    + (IF inFile /\ cur = n THEN 1 ELSE 0)

\* C20: in one run the file processor is called at most once for a document.
C20_NoRetryWithinRun ==
  \A n \in Names : Invocations(n) <= 1

\* C21: once the file processor has closed the document no extraction it
\* submitted is still with the worker, and no extraction is left in flight
\* on the document of a call that has exited.
C21_NoExtractionAtClose ==
  /\ closes > 0 => next_future.state # "submitted"
  /\ orphans = {}

\* C22: the done count of every status snapshot and of the final summary
\* lies between 0 and the total file count.
C22_DoneWithinTotal ==
  /\ status.exists => 0 <= status.done /\ status.done <= status.total
  /\ summary.logged => 0 <= summary.done /\ summary.done <= total

\* C23: at the moment the orchestrator counts a file as an error no output
\* artifact stands at the file's final path, so a file whose artifact was
\* renamed into place is never counted as an error.
C23_ErrorHasNoArtifact ==
  (pc = "loop" /\ outcomes # <<>> /\ outcomes[Len(outcomes)] \in {"failed", "postfail"})
    => ~md[pending[Len(outcomes)]].exists

====
